---- MODULE Spec2Model ----
(***************************************************************************)
(* Appointment scheduling of the clinic: booking routes, cancel and        *)
(* reschedule routes (server/routes.ts), the lifecycle advancer            *)
(* (server/storage.ts) and the availability calculator                     *)
(* (server/services/patientService.ts).                                    *)
(*                                                                         *)
(* Representation.  A date "YYYY-MM-DD" is a day number whose remainder    *)
(* modulo 7 is the JavaScript weekday (0 = Sunday, 1 = Monday, ...).  A    *)
(* time string "HH:MM" / "HH:MM:SS" is the tuple <<HH, MM>>; seconds are   *)
(* always 00 in stored rows and are not represented.  A stored appointment *)
(* keeps the fields the scheduling logic reads: type, date, time, status.  *)
(* The id of an appointment is its index in the sequence appointments.     *)
(***************************************************************************)
EXTENDS Integers, Sequences, FiniteSets, TLC

VARIABLES appointments, appointmentTypes, serviceSchedules, patients, now, response, inflight

vars == <<appointments, appointmentTypes, serviceSchedules, patients, now, response, inflight>>

\* Handlers that run at the same time: each is between two of its awaits or
\* is not running.
Workers == {1, 2}

Idle == [pc |-> "idle"]

NoneInFlight == [w \in Workers |-> Idle]

(***************************************************************************)
(* Bounds of the model.                                                    *)
(***************************************************************************)
MaxAppts == 2

MaxStored == 1

(***************************************************************************)
(* Input domains.                                                          *)
(***************************************************************************)
\* Monday and Tuesday of one week.
Dates == {1, 2}

\* 10:00 and 10:15.
Times == {<<10, 0>>, <<10, 15>>}

\* Type spellings sent by clients of the booking routes.
ReqTypes == {"consulta", "Aplicação"}

\* Type spellings sent to the public webhook route.
CriarTypes == {"CONSULTA", "aplicacao", "Aplicação"}

\* Every spelling the conflict rules are asked about.
AllTypes == {"consulta", "Consulta", "CONSULTA", "retorno", "Retorno",
             "aplicacao", "APLICACAO", "Aplicação", "APLICAÇÃO",
             "tirzepatida", "Aplicação Tirzepatida",
             "aplicação tirzepatida", "aplicacao_tirzepatida", "exame"}

Statuses == {"scheduled", "in_progress", "attended", "cancelled"}

\* Keys (id, phone, CPF) of the patients clients ask about.
Phones == {"ph1", "ph2"}

DoctorName == "Dr. Roberto Santos"

NurseName == "Enf. Ana Paula"

ProfNames == {DoctorName, NurseName}

\* The professionals table (not modified by any modelled route).
professionals == {[id |-> "doc", name |-> DoctorName, role |-> "doctor"],
                  [id |-> "nur", name |-> NurseName, role |-> "nurse"]}

(***************************************************************************)
(* String and time helpers.                                                *)
(***************************************************************************)
\* String.prototype.toLowerCase on the strings of the model.
toLowerCase(s) ==
    CASE s \in {"Consulta", "CONSULTA"} -> "consulta"
      [] s = "Retorno" -> "retorno"
      [] s = "APLICACAO" -> "aplicacao"
      [] s \in {"Aplicação", "APLICAÇÃO"} -> "aplicação"
      [] s = "Aplicação Tirzepatida" -> "aplicação tirzepatida"
      [] s = "Scheduled" -> "scheduled"
      [] s = "Confirmed" -> "confirmed"
      [] s = "Exame" -> "exame"
      [] OTHER -> s

\* parseTime of the booking routes: "HH:MM" -> minutes since midnight.
parseTime(t) == t[1] * 60 + t[2]

\* formatMinutes of the 409 response: minutes -> "HH:MM".
formatMinutes(m) == <<m \div 60, m % 60>>

\* new Date(year, month - 1, day).getDay()
getDay(date) == date % 7

(***************************************************************************)
(* Storage (server/storage.ts).                                            *)
(***************************************************************************)
\* The appointment_types rows in the order getAllAppointmentTypes returns
\* them (ORDER BY name).
DefaultTypes ==
    << [name |-> "Aplicação", slug |-> "aplicacao", durationMinutes |-> 15],
       [name |-> "Aplicação Tirzepatida", slug |-> "tirzepatida", durationMinutes |-> 30],
       [name |-> "Consulta", slug |-> "consulta", durationMinutes |-> 30],
       [name |-> "Retorno", slug |-> "retorno", durationMinutes |-> 30] >>

\* The service_schedules rows: both professionals attend on Monday
\* 09:00-18:00; on Tuesday the doctor attends 09:00-10:15 and the nurse's
\* row is inactive.
DefaultSchedules ==
    { [id |-> 1, professionalId |-> "doc", weekday |-> 1, startTime |-> <<9, 0>>, endTime |-> <<18, 0>>, isActive |-> TRUE],
      [id |-> 2, professionalId |-> "nur", weekday |-> 1, startTime |-> <<9, 0>>, endTime |-> <<18, 0>>, isActive |-> TRUE],
      [id |-> 3, professionalId |-> "doc", weekday |-> 2, startTime |-> <<9, 0>>, endTime |-> <<10, 15>>, isActive |-> TRUE],
      [id |-> 4, professionalId |-> "nur", weekday |-> 2, startTime |-> <<9, 0>>, endTime |-> <<18, 0>>, isActive |-> FALSE] }

\* storage.getAppointment(id)
getAppointment(id) == IF id \in DOMAIN appointments THEN <<appointments[id]>> ELSE << >>

\* storage.createAppointment(data): the appointments table after the insert.
createAppointment(data) == Append(appointments, data)

\* storage.updateAppointment(id, partial): the table after UPDATE ... WHERE id.
updateAppointment(id, partial) ==
    [i \in DOMAIN appointments |->
        IF i = id
        THEN [f \in DOMAIN appointments[i] |->
                 IF f \in DOMAIN partial THEN partial[f] ELSE appointments[i][f]]
        ELSE appointments[i]]

\* storage.getPatient / getPatientByPhone / getPatientByCPF: the status of
\* the patient row with that key, "absent" when there is no such row.
getPatient(key) == patients[key]

(***************************************************************************)
(* Conflict detection of the booking routes (server/routes.ts).            *)
(***************************************************************************)
isMedicalType(t) == toLowerCase(t) \in {"consulta", "retorno", "Consulta", "Retorno"}

isNursingType(t) ==
    toLowerCase(t) \in {"aplicacao", "tirzepatida", "aplicação", "aplicação tirzepatida"}

\* allAppointmentTypes.find(t => slug or name matches, case-insensitively)
\* followed by  typeConfig?.durationMinutes || 30.
getTypeDuration(typeSlug) ==
    LET wanted == toLowerCase(typeSlug)
        matches == {i \in DOMAIN appointmentTypes :
                       \/ toLowerCase(appointmentTypes[i].slug) = wanted
                       \/ toLowerCase(appointmentTypes[i].name) = wanted}
    IN  IF matches = {} THEN 30
        ELSE LET first == CHOOSE i \in matches : \A j \in matches : i <= j
             IN  IF appointmentTypes[first].durationMinutes = 0 THEN 30
                 ELSE appointmentTypes[first].durationMinutes

\* Variant of sameDayAppointments that forgets the status filter.
sameDayAppointments_anyStatus(date) ==
    {i \in DOMAIN appointments : appointments[i].date = date}

\* allAppointments.filter(a => a.date === date && a.status !== "cancelled"),
\* as the set of ids of the rows kept.
sameDayAppointments(date) ==
    {i \in DOMAIN appointments :
        appointments[i].date = date /\ appointments[i].status # "cancelled"}

\* Variant of conflictsWith that compares start times only, ignoring the
\* durations.
conflictsWith_sameStart(a, type, time) ==
    IF parseTime(time) # parseTime(a.time) THEN FALSE
    ELSE IF isMedicalType(type) THEN isMedicalType(a.type)
    ELSE IF isNursingType(type) THEN isNursingType(a.type)
    ELSE FALSE

\* Variant of conflictsWith that ignores the tracks.
conflictsWith_anyTrack(a, type, time) ==
    /\ parseTime(time) < parseTime(a.time) + getTypeDuration(a.type)
    /\ parseTime(time) + getTypeDuration(type) > parseTime(a.time)

\* Variant of conflictsWith whose last branch treats a proposal that
\* belongs to no track as conflicting with whatever overlaps it.
conflictsWith_unclassifiedBlocks(a, type, time) ==
    LET newStartMinutes == parseTime(time)
        newEndMinutes == newStartMinutes + getTypeDuration(type)
        existingStartMinutes == parseTime(a.time)
        existingEndMinutes == existingStartMinutes + getTypeDuration(a.type)
        overlaps == newStartMinutes < existingEndMinutes /\ newEndMinutes > existingStartMinutes
    IN  IF ~overlaps THEN FALSE
        ELSE IF isMedicalType(type) THEN isMedicalType(a.type)
        ELSE IF isNursingType(type) THEN isNursingType(a.type)
        ELSE TRUE

\* The callback of sameDayAppointments.some(...): does the stored row a
\* conflict with a proposal of that type and start time.
conflictsWith(a, type, time) ==
    LET newStartMinutes == parseTime(time)
        newEndMinutes == newStartMinutes + getTypeDuration(type)
        existingStartMinutes == parseTime(a.time)
        existingEndMinutes == existingStartMinutes + getTypeDuration(a.type)
        overlaps == newStartMinutes < existingEndMinutes /\ newEndMinutes > existingStartMinutes
    IN  IF ~overlaps THEN FALSE
        ELSE IF isMedicalType(type) THEN isMedicalType(a.type)
        ELSE IF isNursingType(type) THEN isNursingType(a.type)
        ELSE FALSE

hasConflict(type, date, time) ==
    \E i \in sameDayAppointments(date) : conflictsWith(appointments[i], type, time)

\* The body of the 409 response: the window of the proposed appointment.
ConflictResponse(type, time) ==
    [code |-> 409, msg |-> "Conflito de horario",
     from |-> time,
     to |-> formatMinutes(parseTime(time) + getTypeDuration(type)),
     min |-> getTypeDuration(type)]

Reply(code, msg) == [code |-> code, msg |-> msg]

(***************************************************************************)
(* POST /api/appointments                                                  *)
(***************************************************************************)
\* profSchedules: the rows of the professional for the weekday.
profSchedules(profId, weekday) ==
    {s \in serviceSchedules : s.professionalId = profId /\ s.weekday = weekday}

\* activeProfSchedules.some(s => bookingMinutes >= start && bookingMinutes < end)
isWithinScale(rows, time) ==
    \E s \in rows : /\ parseTime(time) >= parseTime(s.startTime)
                    /\ parseTime(time) < parseTime(s.endTime)

\* The checks that precede the conflict check, for the request req =
\* [patientId, professional, type, date, time, status]: the message of the
\* 400 response, "" when the request passes them.
PostValidationError(req) ==
    IF getPatient(req.patientId) = "absent" THEN "Paciente nao encontrado"
    ELSE IF ~\E p \in professionals : p.name = req.professional
    THEN "Profissional nao encontrado"
    ELSE
      LET professional == CHOOSE p \in professionals : p.name = req.professional
          rows == profSchedules(professional.id, getDay(req.date))
          activeProfSchedules == {s \in rows : s.isActive}
      IN  IF rows = {} THEN "O profissional nao atende neste dia da semana"
          ELSE IF activeProfSchedules = {}
          THEN "A escala do profissional para este dia esta inativa"
          ELSE IF ~isWithinScale(activeProfSchedules, req.time)
          THEN "Horario fora da escala do profissional"
          ELSE ""

\* The response of the handler; code 201 means that the appointment is
\* created.
PostAppointmentsResponse(req) ==
    IF PostValidationError(req) # "" THEN Reply(400, PostValidationError(req))
    ELSE IF hasConflict(req.type, req.date, req.time)
    THEN ConflictResponse(req.type, req.time)
    ELSE Reply(201, "created")

\* The row inserted for a request.
NewAppointment(type, date, time, status) ==
    [type |-> type, date |-> date, time |-> time, status |-> status]

\* Requests of a registered patient for a registered professional, and two
\* requests that name a patient or a professional that does not exist.
PostRequests ==
    [patientId : {"ph1"}, professional : ProfNames,
     type : ReqTypes, date : Dates, time : Times, status : {"scheduled"}]
    \cup [patientId : {"ph2"}, professional : {DoctorName},
          type : {"consulta"}, date : {1}, time : {<<10, 0>>}, status : {"scheduled"}]
    \cup [patientId : {"ph1"}, professional : {"Dr. Ninguem"},
          type : {"consulta"}, date : {1}, time : {<<10, 0>>}, status : {"scheduled"}]

PostAppointments(req) ==
    /\ response' = PostAppointmentsResponse(req)
    /\ appointments' = IF response'.code = 201
                       THEN createAppointment(NewAppointment(req.type, req.date, req.time, req.status))
                       ELSE appointments
    /\ UNCHANGED <<appointmentTypes, serviceSchedules, patients, now, inflight>>

(***************************************************************************)
(* POST /api/agenda/criar-agendamento                                      *)
(***************************************************************************)
\* typeMap[normalizedType] || tipo
dbTypeName(tipo) ==
    CASE toLowerCase(tipo) = "consulta" -> "Consulta"
      [] toLowerCase(tipo) = "retorno" -> "Retorno"
      [] toLowerCase(tipo) = "aplicacao" -> "Aplicação"
      [] toLowerCase(tipo) = "tirzepatida" -> "Aplicação Tirzepatida"
      [] OTHER -> tipo

\* The professional assigned to the type.
profName(tipo) ==
    IF toLowerCase(tipo) \in {"aplicacao", "tirzepatida"} THEN NurseName ELSE DoctorName

\* parseTimePublic: "HH:MM" -> minutes, a missing minute part counts as 0.
parseTimePublic(t) == t[1] * 60 + (IF Len(t) >= 2 THEN t[2] ELSE 0)

\* The conflict check of this route, on the mapped type name.
hasConflictPublic(tipo, data, hora) ==
    \E i \in sameDayAppointments(data) : conflictsWith(appointments[i], dbTypeName(tipo), hora)

\* Steps 1 and 2: the patient-status rules; "" when the request passes them.
PatientRuleError(req) ==
    LET isActive == getPatient(req.telefone) = "active"
        normalizedType == toLowerCase(req.tipo)
    IN  IF ~isActive /\ normalizedType # "consulta" THEN "Pacientes novos ou inativos so podem agendar consulta"
        ELSE IF isActive /\ normalizedType \notin {"aplicacao", "tirzepatida", "consulta", "retorno"}
        THEN "Tipo de agendamento nao permitido"
        ELSE ""

\* Step 6: the schedule check; "" when the request passes it (also when
\* the assigned professional has no row in the professionals table).
CriarScheduleError(req) ==
    LET profs == {p \in professionals : p.name = profName(req.tipo)}
        rows == IF profs = {} THEN {}
                ELSE {s \in profSchedules((CHOOSE p \in profs : TRUE).id, getDay(req.data)) : s.isActive}
    IN  IF profs # {} /\ rows = {} THEN "O profissional nao atende neste dia da semana"
        ELSE IF profs # {} /\ ~isWithinScale(rows, req.hora)
        THEN "O profissional nao possui escala configurada para este horario"
        ELSE ""

\* The response of the handler.
CriarAgendamentoResponse(req) ==
    IF PatientRuleError(req) = "Pacientes novos ou inativos so podem agendar consulta"
    THEN Reply(403, PatientRuleError(req))
    ELSE IF PatientRuleError(req) # "" THEN Reply(400, PatientRuleError(req))
    ELSE IF CriarScheduleError(req) # "" THEN Reply(400, CriarScheduleError(req))
    ELSE IF hasConflictPublic(req.tipo, req.data, req.hora)
    THEN ConflictResponse(dbTypeName(req.tipo), req.hora)
    ELSE Reply(201, "Agendamento criado com sucesso")

CriarRequests == [telefone : Phones, tipo : CriarTypes, data : Dates, hora : Times]

CriarAgendamento(req) ==
    /\ response' = CriarAgendamentoResponse(req)
    \* step 5 runs before the schedule and the conflict checks
    /\ patients' = IF PatientRuleError(req) = "" /\ getPatient(req.telefone) = "absent"
                   THEN [patients EXCEPT ![req.telefone] = "active"]
                   ELSE patients
    /\ appointments' = IF response'.code = 201
                       THEN createAppointment(NewAppointment(dbTypeName(req.tipo), req.data, req.hora, "scheduled"))
                       ELSE appointments
    /\ UNCHANGED <<appointmentTypes, serviceSchedules, now, inflight>>

(***************************************************************************)
(* POST /api/agenda/agendamento-online                                     *)
(***************************************************************************)
OnlineResponse(req) ==
    IF getPatient(req.cpf) = "absent" THEN Reply(404, "Paciente nao encontrado")
    ELSE IF ~\E p \in professionals : toLowerCase(p.role) = "nurse"
    THEN Reply(500, "Agenda da enfermeira nao configurada")
    ELSE Reply(201, "created")

OnlineRequests ==
    [cpf : {"ph1"}, type : ReqTypes, date : Dates, time : Times]
    \cup [cpf : {"ph2"}, type : {"Aplicação"}, date : {1}, time : {<<10, 0>>}]

AgendamentoOnline(req) ==
    /\ response' = OnlineResponse(req)
    /\ appointments' = IF response'.code = 201
                       THEN createAppointment(NewAppointment(req.type, req.date, req.time, "scheduled"))
                       ELSE appointments
    /\ UNCHANGED <<appointmentTypes, serviceSchedules, patients, now, inflight>>

(***************************************************************************)
(* Cancel and reschedule routes.                                           *)
(***************************************************************************)
\* Ids a client may send: every stored id and one that does not exist.
RequestIds == 1 .. (Len(appointments) + 1)

\* PATCH /api/appointments/:id/cancel
CancelAppointment(id) ==
    /\ IF getAppointment(id) = << >>
       THEN /\ response' = Reply(404, "Agendamento nao encontrado")
            /\ UNCHANGED appointments
       ELSE /\ appointments' = updateAppointment(id, [status |-> "cancelled"])
            /\ response' = Reply(200, "updated")
    /\ UNCHANGED <<appointmentTypes, serviceSchedules, patients, now, inflight>>

\* PATCH /api/agenda/cancelar-agendamento/:id
CancelarAgendamento(id) ==
    /\ IF getAppointment(id) = << >>
       THEN /\ response' = Reply(404, "Agendamento nao encontrado")
            /\ UNCHANGED appointments
       ELSE /\ appointments' = updateAppointment(id, [status |-> "cancelled"])
            /\ response' = Reply(200, "updated")
    /\ UNCHANGED <<appointmentTypes, serviceSchedules, patients, now, inflight>>

\* PATCH /api/agenda/alterar-agendamento?id=&data=&hora=
AlterarAgendamento(id, data, hora) ==
    /\ IF getAppointment(id) = << >>
       THEN /\ response' = Reply(404, "Agendamento nao encontrado")
            /\ UNCHANGED appointments
       ELSE /\ appointments' = updateAppointment(id, [date |-> data, time |-> hora, status |-> "scheduled"])
            /\ response' = Reply(200, "updated")
    /\ UNCHANGED <<appointmentTypes, serviceSchedules, patients, now, inflight>>

\* Bodies of PATCH /api/appointments/:id: one field at a time.
PatchBodies ==
    {[status |-> s] : s \in Statuses} \cup {[time |-> t] : t \in Times}
    \cup {[date |-> d] : d \in Dates} \cup {[type |-> t] : t \in ReqTypes}

\* Variant of PatchAppointmentResponse that runs the conflict check of the
\* booking routes on the merged row before it writes.
PatchAppointmentResponse_validated(id, body) ==
    IF getAppointment(id) = << >> THEN Reply(404, "Agendamento nao encontrado")
    ELSE IF hasConflict(updateAppointment(id, body)[id].type,
                        updateAppointment(id, body)[id].date,
                        updateAppointment(id, body)[id].time)
    THEN ConflictResponse(updateAppointment(id, body)[id].type, updateAppointment(id, body)[id].time)
    ELSE [code |-> 200, msg |-> "appointment", row |-> updateAppointment(id, body)[id]]

\* The response of PATCH /api/appointments/:id: 404 when no row has the
\* id, else the updated row.
PatchAppointmentResponse(id, body) ==
    IF getAppointment(id) = << >> THEN Reply(404, "Agendamento nao encontrado")
    ELSE [code |-> 200, msg |-> "appointment", row |-> updateAppointment(id, body)[id]]

\* PATCH /api/appointments/:id
PatchAppointment(id, body) ==
    /\ response' = PatchAppointmentResponse(id, body)
    /\ appointments' = IF PatchAppointmentResponse(id, body).code = 200
                       THEN updateAppointment(id, body) ELSE appointments
    /\ UNCHANGED <<appointmentTypes, serviceSchedules, patients, now, inflight>>

(***************************************************************************)
(* The service schedule routes (server/routes.ts).                         *)
(***************************************************************************)
\* Variant of validateBusinessHours without the weekend test.
validateBusinessHours_weekendAllowed(weekday, startTime, endTime) ==
    IF weekday = 5 /\ (parseTime(startTime) < 9 * 60 \/ parseTime(endTime) > 13 * 60)
    THEN "Sexta-feira: horario permitido e 09:00 - 13:00"
    ELSE IF weekday # 5 /\ (parseTime(startTime) < 9 * 60 \/ parseTime(endTime) > 18 * 60)
    THEN "Segunda a Quinta: horario permitido e 09:00 - 18:00"
    ELSE IF parseTime(startTime) >= parseTime(endTime)
    THEN "Horario de inicio deve ser anterior ao horario de termino"
    ELSE ""

\* validateBusinessHours: the message of the failure, "" for valid.
validateBusinessHours(weekday, startTime, endTime) ==
    IF weekday = 0 \/ weekday = 6 THEN "Nao e permitido agendar nos finais de semana"
    ELSE IF weekday = 5 /\ (parseTime(startTime) < 9 * 60 \/ parseTime(endTime) > 13 * 60)
    THEN "Sexta-feira: horario permitido e 09:00 - 13:00"
    ELSE IF weekday # 5 /\ (parseTime(startTime) < 9 * 60 \/ parseTime(endTime) > 18 * 60)
    THEN "Segunda a Quinta: horario permitido e 09:00 - 18:00"
    ELSE IF parseTime(startTime) >= parseTime(endTime)
    THEN "Horario de inicio deve ser anterior ao horario de termino"
    ELSE ""

\* storage.getProfessional(id) finds a row.
getProfessional(id) == \E p \in professionals : p.id = id

\* storage.getServiceSchedule(id)
getServiceSchedule(id) == {s \in serviceSchedules : s.id = id}

\* The id the database gives to a new service_schedules row.
newScheduleId ==
    IF serviceSchedules = {} THEN 1
    ELSE 1 + (CHOOSE n \in {s.id : s \in serviceSchedules} : \A s \in serviceSchedules : s.id <= n)

\* storage.createServiceSchedule(data): the table after the insert.
createServiceSchedule(data) ==
    serviceSchedules \cup
        {[id |-> newScheduleId, professionalId |-> data.professionalId, weekday |-> data.weekday,
          startTime |-> data.startTime, endTime |-> data.endTime, isActive |-> data.isActive]}

\* storage.updateServiceSchedule(id, partial): the table after the update.
updateServiceSchedule(id, partial) ==
    {IF s.id = id
     THEN [f \in DOMAIN s |-> IF f \in DOMAIN partial THEN partial[f] ELSE s[f]]
     ELSE s : s \in serviceSchedules}

\* The response of POST /api/schedules; 201 means the row is stored.
PostSchedulesResponse(body) ==
    IF validateBusinessHours(body.weekday, body.startTime, body.endTime) # ""
    THEN Reply(400, validateBusinessHours(body.weekday, body.startTime, body.endTime))
    ELSE IF ~getProfessional(body.professionalId) THEN Reply(400, "Profissional nao encontrado")
    ELSE Reply(201, "schedule")

\* POST /api/schedules
PostSchedules(body) ==
    /\ response' = PostSchedulesResponse(body)
    /\ serviceSchedules' = IF PostSchedulesResponse(body).code = 201
                           THEN createServiceSchedule(body) ELSE serviceSchedules
    /\ UNCHANGED <<appointments, appointmentTypes, patients, now, inflight>>

\* The response of PATCH /api/schedules/:id; 200 means the row is updated.
PatchSchedulesResponse(id, body) ==
    IF getServiceSchedule(id) = {} THEN Reply(404, "Horario nao encontrado")
    ELSE IF "professionalId" \in DOMAIN body /\ ~getProfessional(body.professionalId)
    THEN Reply(400, "Profissional nao encontrado")
    ELSE
      LET existing == CHOOSE s \in getServiceSchedule(id) : TRUE
          weekday == IF "weekday" \in DOMAIN body THEN body.weekday ELSE existing.weekday
          startTime == IF "startTime" \in DOMAIN body THEN body.startTime ELSE existing.startTime
          endTime == IF "endTime" \in DOMAIN body THEN body.endTime ELSE existing.endTime
      IN  IF validateBusinessHours(weekday, startTime, endTime) # ""
          THEN Reply(400, validateBusinessHours(weekday, startTime, endTime))
          ELSE Reply(200, "schedule")

\* PATCH /api/schedules/:id
PatchSchedules(id, body) ==
    /\ response' = PatchSchedulesResponse(id, body)
    /\ serviceSchedules' = IF PatchSchedulesResponse(id, body).code = 200
                           THEN updateServiceSchedule(id, body) ELSE serviceSchedules
    /\ UNCHANGED <<appointments, appointmentTypes, patients, now, inflight>>

(***************************************************************************)
(* The appointment type routes (server/routes.ts).  A row is named by its  *)
(* slug, which no modelled body changes.                                   *)
(***************************************************************************)
\* The names of the model in the order of ORDER BY name.
NameOrder == <<"Aplicação", "Aplicação Tirzepatida", "Consulta", "Exame", "Retorno">>

\* getAllAppointmentTypes over a set of rows: the rows ordered by name.
orderByName(rows) ==
    LET present == SelectSeq(NameOrder, LAMBDA n : \E r \in rows : r.name = n)
    IN  [k \in 1 .. Len(present) |-> CHOOSE r \in rows : r.name = present[k]]

\* storage.createAppointmentType(data): the table after the insert.
createAppointmentType(data) ==
    orderByName({appointmentTypes[i] : i \in DOMAIN appointmentTypes} \cup {data})

\* storage.updateAppointmentType(id, partial): the table after the update.
updateAppointmentType(slug, partial) ==
    [i \in DOMAIN appointmentTypes |->
        IF appointmentTypes[i].slug = slug
        THEN [f \in DOMAIN appointmentTypes[i] |->
                 IF f \in DOMAIN partial THEN partial[f] ELSE appointmentTypes[i][f]]
        ELSE appointmentTypes[i]]

\* The response of POST /api/appointment-types: 201 when the row is
\* stored, 500 when the insert breaks the unique index of name or slug.
PostAppointmentTypesResponse(body) ==
    IF \E i \in DOMAIN appointmentTypes :
          appointmentTypes[i].name = body.name \/ appointmentTypes[i].slug = body.slug
    THEN Reply(500, "duplicate key value violates unique constraint")
    ELSE Reply(201, "type")

\* POST /api/appointment-types
PostAppointmentTypes(body) ==
    /\ response' = PostAppointmentTypesResponse(body)
    /\ appointmentTypes' = IF PostAppointmentTypesResponse(body).code = 201
                           THEN createAppointmentType(body) ELSE appointmentTypes
    /\ UNCHANGED <<appointments, serviceSchedules, patients, now, inflight>>

\* The response of PATCH /api/appointment-types/:id.
PatchAppointmentTypesResponse(slug, body) ==
    IF \E i \in DOMAIN appointmentTypes : appointmentTypes[i].slug = slug
    THEN Reply(200, "type")
    ELSE Reply(404, "Tipo de atendimento nao encontrado")

\* PATCH /api/appointment-types/:id
PatchAppointmentTypes(slug, body) ==
    /\ response' = PatchAppointmentTypesResponse(slug, body)
    /\ appointmentTypes' = updateAppointmentType(slug, body)
    /\ UNCHANGED <<appointments, serviceSchedules, patients, now, inflight>>

(***************************************************************************)
(* The booking system: every booking, cancel and reschedule route.         *)
(***************************************************************************)
\* One registered, active patient; the other key has no row yet.
InitialPatients == [k \in Phones |-> IF k = "ph1" THEN "active" ELSE "absent"]

InitialClock == [day |-> 1, min |-> 540]

Init ==
    /\ appointments = << >>
    /\ appointmentTypes = DefaultTypes
    /\ serviceSchedules = DefaultSchedules
    /\ patients = InitialPatients
    /\ now = InitialClock
    /\ response = Reply(0, "none")
    /\ inflight = NoneInFlight

\* Statuses a client of PATCH /api/appointments/:id sends in Spec.
BookingPatchBodies == {b \in PatchBodies : "status" \in DOMAIN b => b.status \in {"scheduled", "cancelled"}}

\* The table holds at most MaxAppts rows: no booking request is sent to a
\* full table.
Next ==
    \/ \E req \in PostRequests : Len(appointments) < MaxAppts /\ PostAppointments(req)
    \/ \E req \in CriarRequests : Len(appointments) < MaxAppts /\ CriarAgendamento(req)
    \/ \E req \in OnlineRequests : Len(appointments) < MaxAppts /\ AgendamentoOnline(req)
    \/ \E id \in RequestIds : CancelAppointment(id)
    \/ \E id \in RequestIds : CancelarAgendamento(id)
    \/ \E id \in RequestIds, data \in Dates, hora \in Times : AlterarAgendamento(id, data, hora)
    \/ \E id \in RequestIds, body \in BookingPatchBodies : PatchAppointment(id, body)

Spec == Init /\ [][Next]_vars

(***************************************************************************)
(* The lifecycle advancer (server/storage.ts, updateAppointmentStatuses).  *)
(***************************************************************************)
\* Values of the wall clock: a day and the minutes since midnight.
ClockDays == {1, 2, 3}

ClockMins == {590, 600, 615, 630, 635, 645}

ClockPoints == [day : ClockDays, min : ClockMins]

\* new Map(types.map(t => [t.name, t.durationMinutes])).get(type) || 30
typeMapDuration(type) ==
    LET matches == {i \in DOMAIN appointmentTypes : appointmentTypes[i].name = type}
    IN  IF matches = {} THEN 30
        ELSE LET last == CHOOSE i \in matches : \A j \in matches : j <= i
             IN  IF appointmentTypes[last].durationMinutes = 0 THEN 30
                 ELSE appointmentTypes[last].durationMinutes

\* Variant of startDue without the status condition.
startDue_anyStatus(appts, clock) ==
    [i \in DOMAIN appts |->
        IF appts[i].date = clock.day /\ parseTime(appts[i].time) <= clock.min
        THEN [appts[i] EXCEPT !.status = "in_progress"]
        ELSE appts[i]]

\* Variant of startDue without the date condition.
startDue_anyDate(appts, clock) ==
    [i \in DOMAIN appts |->
        IF parseTime(appts[i].time) <= clock.min /\ appts[i].status = "scheduled"
        THEN [appts[i] EXCEPT !.status = "in_progress"]
        ELSE appts[i]]

\* Step 1: UPDATE appointments SET status = 'in_progress'
\*         WHERE date = currentDate AND time <= currentTime AND status = 'scheduled'
startDue(appts, clock) ==
    [i \in DOMAIN appts |->
        IF /\ appts[i].date = clock.day
           /\ parseTime(appts[i].time) <= clock.min
           /\ appts[i].status = "scheduled"
        THEN [appts[i] EXCEPT !.status = "in_progress"]
        ELSE appts[i]]

\* Step 2: every row that is in_progress is set to attended when
\* now >= endTime, where startTime is the clock's own date at the row's time.
finishDue(appts, clock) ==
    [i \in DOMAIN appts |->
        IF /\ appts[i].status = "in_progress"
           /\ clock.min >= parseTime(appts[i].time) + typeMapDuration(appts[i].type)
        THEN [appts[i] EXCEPT !.status = "attended"]
        ELSE appts[i]]

\* Variant of advanced whose step 2 works on the rows that were in_progress
\* before step 1.
advanced_staleRead(appts, clock) ==
    [i \in DOMAIN appts |->
        IF appts[i].status = "in_progress" THEN finishDue(appts, clock)[i]
        ELSE startDue(appts, clock)[i]]

\* The appointments table after updateAppointmentStatuses ran at the clock.
advanced(appts, clock) == finishDue(startDue(appts, clock), clock)

updateAppointmentStatuses ==
    /\ appointments' = advanced(appointments, now)
    /\ response' = Reply(0, "updateAppointmentStatuses")
    /\ UNCHANGED <<appointmentTypes, serviceSchedules, patients, now, inflight>>

\* Time passes.
Tick ==
    /\ \E c \in ClockPoints :
          /\ c.day * 1440 + c.min > now.day * 1440 + now.min
          /\ now' = c
    /\ UNCHANGED <<appointments, appointmentTypes, serviceSchedules, patients, response, inflight>>

\* Stored rows the lifecycle is checked on.
LifeAppts == [type : {"Consulta", "aplicacao", "Aplicação"}, date : Dates, time : Times, status : Statuses]

StoredTables(rows) == UNION {[1 .. n -> rows] : n \in 0 .. MaxStored}

InitLifecycle ==
    /\ appointments \in StoredTables(LifeAppts)
    /\ appointmentTypes = DefaultTypes
    /\ serviceSchedules = DefaultSchedules
    /\ patients = InitialPatients
    /\ now \in ClockPoints
    /\ response = Reply(0, "none")
    /\ inflight = NoneInFlight

NextLifecycle ==
    \/ updateAppointmentStatuses
    \/ Tick
    \/ \E id \in DOMAIN appointments : CancelAppointment(id)
    \/ \E id \in DOMAIN appointments, data \in Dates, hora \in Times : AlterarAgendamento(id, data, hora)

SpecLifecycle == InitLifecycle /\ [][NextLifecycle]_vars

\* The advancer alone, run again and again while time passes: no route
\* cancels or moves an appointment.  The advancer keeps being run and the
\* clock keeps advancing up to its last point, but the advancer need not
\* run at every point of the clock.
NextAdvancer ==
    \/ updateAppointmentStatuses
    \/ Tick

SpecAdvancer ==
    /\ InitLifecycle /\ [][NextAdvancer]_vars
    /\ WF_vars(updateAppointmentStatuses) /\ WF_vars(Tick)

(***************************************************************************)
(* The validated booking routes on a stored table.                         *)
(***************************************************************************)
\* Stored rows the conflict check is exercised on.
ConflictRows == [type : {"consulta", "Aplicação"}, date : {1}, time : Times, status : {"scheduled"}]

InitConflict ==
    /\ appointments \in StoredTables(ConflictRows)
    /\ appointmentTypes = DefaultTypes
    /\ serviceSchedules = DefaultSchedules
    /\ patients = InitialPatients
    /\ now = InitialClock
    /\ response = Reply(0, "none")
    /\ inflight = NoneInFlight

\* One more row than the stored table may be booked.
NextConflict ==
    \/ \E req \in PostRequests : Len(appointments) <= MaxStored /\ PostAppointments(req)
    \/ \E req \in CriarRequests : Len(appointments) <= MaxStored /\ CriarAgendamento(req)
    \/ \E id \in DOMAIN appointments : CancelAppointment(id)
    \/ \E id \in DOMAIN appointments : CancelarAgendamento(id)

SpecConflict == InitConflict /\ [][NextConflict]_vars

(***************************************************************************)
(* The availability calculator (server/services/patientService.ts).        *)
(***************************************************************************)
BUSINESS_START_HOUR == 9

SLOT_INTERVAL_MINUTES == 30

BLOCKING_STATUSES ==
    {"scheduled", "confirmed", "completed", "pending",
     "agendado", "confirmado", "concluido", "pendente"}

\* TYPE_SLUG_MAP[key] || key
typeSlugMapped(key) == IF key = "aplicacao_tirzepatida" THEN "tirzepatida" ELSE key

getEndHour(weekday) == IF weekday = 5 THEN 13 ELSE 18

\* The while loop of generateTimeSlotsForDay, from currentMinutes on.
RECURSIVE slotsFrom(_, _)
slotsFrom(currentMinutes, endMinutes) ==
    IF currentMinutes < endMinutes
    THEN <<formatMinutes(currentMinutes)>> \o slotsFrom(currentMinutes + SLOT_INTERVAL_MINUTES, endMinutes)
    ELSE << >>

\* Variant of generateTimeSlotsForDay whose loop also emits the slot that
\* starts at the close time (currentMinutes <= endMinutes).
generateTimeSlotsForDay_inclusiveEnd(weekday) ==
    slotsFrom(BUSINESS_START_HOUR * 60, getEndHour(weekday) * 60 + 1)

generateTimeSlotsForDay(weekday) == slotsFrom(BUSINESS_START_HOUR * 60, getEndHour(weekday) * 60)

\* dayjs(date).day() is 1 (Monday) .. 5 (Friday)
isWeekday(date) == getDay(date) >= 1 /\ getDay(date) <= 5

\* timeToMinutes: "HH:MM" -> minutes, a missing minute part counts as 0.
timeToMinutes(time) == time[1] * 60 + (IF Len(time) >= 2 THEN time[2] ELSE 0)

intervalsOverlap(start1, end1, start2, end2) == start1 < end2 /\ start2 < end1

\* new Map(types.map(t => [t.name.toLowerCase(), t.durationMinutes])).get(key),
\* 0 standing for undefined.
lowerNameDuration(key) ==
    LET matches == {i \in DOMAIN appointmentTypes : toLowerCase(appointmentTypes[i].name) = key}
    IN  IF matches = {} THEN 0
        ELSE appointmentTypes[CHOOSE i \in matches : \A j \in matches : j <= i].durationMinutes

\* typeMap.get(typeKey) || typeMap.get(apt.type.toLowerCase()) || 30
occupiedDuration(type) ==
    IF lowerNameDuration(typeSlugMapped(toLowerCase(type))) # 0
    THEN lowerNameDuration(typeSlugMapped(toLowerCase(type)))
    ELSE IF lowerNameDuration(toLowerCase(type)) # 0
    THEN lowerNameDuration(toLowerCase(type))
    ELSE 30

\* storage.getAppointmentsByDateRange(start, end), as the set of ids.
getAppointmentsByDateRange(startDate, endDate) ==
    {i \in DOMAIN appointments : appointments[i].date >= startDate /\ appointments[i].date <= endDate}

\* Variant of getOccupiedIntervals that compares the status as stored,
\* without lowering its case.
getOccupiedIntervals_caseSensitive(ids) ==
    {[date |-> appointments[i].date,
      startMinutes |-> timeToMinutes(appointments[i].time),
      endMinutes |-> timeToMinutes(appointments[i].time) + occupiedDuration(appointments[i].type)] :
        i \in {j \in ids : appointments[j].status \in BLOCKING_STATUSES}}

\* getOccupiedIntervals: one interval per row whose status blocks.
getOccupiedIntervals(ids) ==
    {[date |-> appointments[i].date,
      startMinutes |-> timeToMinutes(appointments[i].time),
      endMinutes |-> timeToMinutes(appointments[i].time) + occupiedDuration(appointments[i].type)] :
        i \in {j \in ids : toLowerCase(appointments[j].status) \in BLOCKING_STATUSES}}

\* The duration of the requested type; "" stands for no tipo parameter.
requestedDuration(tipo) ==
    IF tipo = "" THEN 30
    ELSE LET typeSlug == typeSlugMapped(toLowerCase(tipo))
             matches == {i \in DOMAIN appointmentTypes : toLowerCase(appointmentTypes[i].name) = typeSlug}
         IN  IF matches = {} THEN 30
             ELSE LET first == CHOOSE i \in matches : \A j \in matches : i <= j
                  IN  IF appointmentTypes[first].durationMinutes = 0 THEN 30
                      ELSE appointmentTypes[first].durationMinutes

\* Variant of slotIsFree whose cutoff of today keeps the slot that starts
\* at the current minute.
slotIsFree_strictCutoff(slot, date, duration, occupied, clock) ==
    /\ ~(date = clock.day /\ timeToMinutes(slot) < clock.min)
    /\ ~\E interval \in {i \in occupied : i.date = date} :
           intervalsOverlap(timeToMinutes(slot), timeToMinutes(slot) + duration,
                            interval.startMinutes, interval.endMinutes)

\* The callback of dayTimeSlots.filter(...): the slot is kept.
slotIsFree(slot, date, duration, occupied, clock) ==
    /\ ~(date = clock.day /\ timeToMinutes(slot) <= clock.min)
    /\ ~\E interval \in {i \in occupied : i.date = date} :
           intervalsOverlap(timeToMinutes(slot), timeToMinutes(slot) + duration,
                            interval.startMinutes, interval.endMinutes)

\* The entry of one weekday.
dayEntry(date, duration, occupied, clock) ==
    [data |-> date,
     horariosDisponiveis |->
        SelectSeq(generateTimeSlotsForDay(getDay(date)),
                  LAMBDA slot : slotIsFree(slot, date, duration, occupied, clock))]

\* Variant of daysFrom that emits an entry for every date of the range,
\* weekend or not.
RECURSIVE daysFrom_everyDay(_, _, _, _, _)
daysFrom_everyDay(currentDate, endDate, duration, occupied, clock) ==
    IF currentDate <= endDate
    THEN <<dayEntry(currentDate, duration, occupied, clock)>>
         \o daysFrom_everyDay(currentDate + 1, endDate, duration, occupied, clock)
    ELSE << >>

\* The day loop, from currentDate on.
RECURSIVE daysFrom(_, _, _, _, _)
daysFrom(currentDate, endDate, duration, occupied, clock) ==
    IF currentDate <= endDate
    THEN (IF isWeekday(currentDate) THEN <<dayEntry(currentDate, duration, occupied, clock)>> ELSE << >>)
         \o daysFrom(currentDate + 1, endDate, duration, occupied, clock)
    ELSE << >>

\* getAvailableSlots(dataInicio, dataFim, tipo) evaluated at the clock;
\* dataFim = 0 stands for no dataFim parameter.
getAvailableSlots(dataInicio, dataFim, tipo, clock) ==
    LET endDate == IF dataFim # 0 THEN dataFim ELSE dataInicio
    IN  daysFrom(dataInicio, endDate, requestedDuration(tipo),
                 getOccupiedIntervals(getAppointmentsByDateRange(dataInicio, endDate)), clock)

\* Queries of GET /api/agenda/disponibilidade/:date and of the date range
\* form: Monday, Tuesday, Saturday; a range ends on Tuesday.
Queries == [dataInicio : {1, 2, 6}, dataFim : {0, 2}, tipo : {"", "aplicacao"}]

GetAvailableSlots(q) ==
    /\ response' = [code |-> 200, msg |-> "slots",
                    body |-> getAvailableSlots(q.dataInicio, q.dataFim, q.tipo, now)]
    /\ UNCHANGED <<appointments, appointmentTypes, serviceSchedules, patients, now, inflight>>

\* Stored rows and clock values the calculator is checked on.
AvailRows == [type : {"Consulta", "aplicacao"}, date : Dates, time : Times, status : {"scheduled", "cancelled"}]

AvailClock == [day : {1, 2}, min : {590, 600, 630}]

InitAvail ==
    /\ appointments \in StoredTables(AvailRows)
    /\ appointmentTypes = DefaultTypes
    /\ serviceSchedules = DefaultSchedules
    /\ patients = InitialPatients
    /\ now \in AvailClock
    /\ response = Reply(0, "none")
    /\ inflight = NoneInFlight

NextAvail ==
    \/ \E q \in Queries : GetAvailableSlots(q)
    \/ \E id \in DOMAIN appointments : CancelAppointment(id)

SpecAvail == InitAvail /\ [][NextAvail]_vars

\* The calculator over a week: queries for Monday alone, Friday alone, and
\* the range from Friday to the Monday after (day 8), asked on Monday at
\* 09:50 or on Friday at 10:00, over stored rows of Monday and Friday that
\* carry blocking and non-blocking statuses.
GridRanges == {<<1, 0>>, <<5, 0>>, <<5, 8>>}

GridQueries ==
    {[dataInicio |-> r[1], dataFim |-> r[2], tipo |-> t] : r \in GridRanges, t \in {"", "Aplicação"}}

GridRows ==
    [type : {"Consulta", "Aplicação"}, date : {1, 5}, time : {<<10, 0>>, <<10, 15>>},
     status : {"scheduled", "Confirmed", "in_progress", "cancelled"}]

GridClock == {[day |-> 1, min |-> 590], [day |-> 5, min |-> 600]}

InitGrid ==
    /\ appointments \in StoredTables(GridRows)
    /\ appointmentTypes = DefaultTypes
    /\ serviceSchedules = DefaultSchedules
    /\ patients = InitialPatients
    /\ now \in GridClock
    /\ response = Reply(0, "none")
    /\ inflight = NoneInFlight

NextGrid ==
    \/ \E q \in GridQueries : GetAvailableSlots(q)
    \/ \E id \in DOMAIN appointments : CancelAppointment(id)

SpecGrid == InitGrid /\ [][NextGrid]_vars

(***************************************************************************)
(* The schedule routes together with the two validated booking routes:     *)
(* the service_schedules table starts empty and changes only through       *)
(* POST /api/schedules and PATCH /api/schedules/:id.                       *)
(***************************************************************************)
\* Bodies of POST /api/schedules: the doctor's Monday and Friday windows,
\* and bodies for Sunday, Saturday, weekday 7, a window that opens at
\* 08:00, an empty window and a professional that does not exist.
ScheduleBodies ==
    [professionalId : {"doc"}, weekday : {1, 5}, startTime : {<<9, 0>>},
     endTime : {<<13, 0>>, <<18, 0>>}, isActive : BOOLEAN]
    \cup [professionalId : {"doc"}, weekday : {0, 6, 7}, startTime : {<<9, 0>>},
          endTime : {<<13, 0>>}, isActive : {TRUE}]
    \cup [professionalId : {"doc"}, weekday : {1}, startTime : {<<8, 0>>, <<13, 0>>},
          endTime : {<<13, 0>>}, isActive : {TRUE}]
    \cup [professionalId : {"p-unknown"}, weekday : {1}, startTime : {<<9, 0>>},
          endTime : {<<13, 0>>}, isActive : {TRUE}]

\* Bodies of PATCH /api/schedules/:id.
SchedulePatchBodies ==
    {[weekday |-> 6], [weekday |-> 5], [endTime |-> <<18, 0>>],
     [isActive |-> FALSE], [professionalId |-> "p-unknown"]}

\* Ids named by PATCH /api/schedules/:id; the last one is never stored.
ScheduleIds == 1 .. (MaxStored + 2)

\* Booking requests for Monday, Saturday and Sunday.
SchedulePostRequests ==
    [patientId : {"ph1"}, professional : {DoctorName}, type : {"consulta"},
     date : {1, 6, 7}, time : {<<10, 0>>}, status : {"scheduled"}]

ScheduleCriarRequests == [telefone : {"ph1"}, tipo : {"CONSULTA"}, data : {1, 5}, hora : {<<10, 0>>}]

InitSchedules ==
    /\ appointments = << >>
    /\ appointmentTypes = DefaultTypes
    /\ serviceSchedules = {}
    /\ patients = InitialPatients
    /\ now = InitialClock
    /\ response = Reply(0, "none")
    /\ inflight = NoneInFlight

\* The schedule table holds at most MaxStored + 1 rows and the appointment
\* table at most MaxStored.
NextSchedules ==
    \/ \E body \in ScheduleBodies : Cardinality(serviceSchedules) <= MaxStored /\ PostSchedules(body)
    \/ \E id \in ScheduleIds, body \in SchedulePatchBodies : PatchSchedules(id, body)
    \/ \E req \in SchedulePostRequests : Len(appointments) < MaxStored /\ PostAppointments(req)
    \/ \E req \in ScheduleCriarRequests : Len(appointments) < MaxStored /\ CriarAgendamento(req)

SpecSchedules == InitSchedules /\ [][NextSchedules]_vars

(***************************************************************************)
(* POST /api/appointments over stored rows of a classified and of an       *)
(* unclassified type.                                                      *)
(***************************************************************************)
TrackRows ==
    [type : {"consulta", "exame"}, date : {1}, time : Times, status : {"scheduled", "in_progress"}]

TrackRequests ==
    [patientId : {"ph1"}, professional : {DoctorName}, type : {"consulta", "exame", "Aplicação"},
     date : {1}, time : Times, status : {"scheduled"}]

InitTracks ==
    /\ appointments \in StoredTables(TrackRows)
    /\ appointmentTypes = DefaultTypes
    /\ serviceSchedules = DefaultSchedules
    /\ patients = InitialPatients
    /\ now = InitialClock
    /\ response = Reply(0, "none")
    /\ inflight = NoneInFlight

NextTracks ==
    \/ \E req \in TrackRequests : Len(appointments) <= MaxStored /\ PostAppointments(req)
    \/ \E id \in DOMAIN appointments : CancelAppointment(id)

SpecTracks == InitTracks /\ [][NextTracks]_vars

(***************************************************************************)
(* The routes that edit a stored appointment, over a stored table.         *)
(***************************************************************************)
\* Dates a stored appointment is moved to: Monday, Tuesday, Wednesday.
EditDates == {1, 2, 3}

InitEdit ==
    /\ appointments \in StoredTables(ConflictRows)
    /\ appointmentTypes = DefaultTypes
    /\ serviceSchedules = DefaultSchedules
    /\ patients = InitialPatients
    /\ now = InitialClock
    /\ response = Reply(0, "none")
    /\ inflight = NoneInFlight

NextEdit ==
    \/ \E id \in RequestIds, body \in PatchBodies : PatchAppointment(id, body)
    \/ \E id \in RequestIds, data \in EditDates, hora \in Times : AlterarAgendamento(id, data, hora)

SpecEdit == InitEdit /\ [][NextEdit]_vars

(***************************************************************************)
(* The appointment type routes alone, from the configured types on.        *)
(***************************************************************************)
\* Values of durationMinutes sent by clients: any integer passes the insert
\* schema.
Durations == {-10, 0, 3, 5, 45}

\* Bodies of POST /api/appointment-types: a new type, and bodies that
\* repeat the name or the slug of a stored one.
TypeBodies ==
    [name : {"Exame"}, slug : {"exame"}, durationMinutes : Durations]
    \cup [name : {"Consulta"}, slug : {"consulta-2"}, durationMinutes : {45}]
    \cup [name : {"Exame"}, slug : {"consulta"}, durationMinutes : {45}]

\* Rows named by PATCH /api/appointment-types/:id; the last one is never
\* stored.
TypeSlugs == {"consulta", "aplicacao", "exame", "nenhum"}

InitTypes ==
    /\ appointments = << >>
    /\ appointmentTypes = DefaultTypes
    /\ serviceSchedules = DefaultSchedules
    /\ patients = InitialPatients
    /\ now = InitialClock
    /\ response = Reply(0, "none")
    /\ inflight = NoneInFlight

NextTypes ==
    \/ \E body \in TypeBodies : PostAppointmentTypes(body)
    \/ \E slug \in TypeSlugs, d \in Durations : PatchAppointmentTypes(slug, [durationMinutes |-> d])

SpecTypes == InitTypes /\ [][NextTypes]_vars

(***************************************************************************)
(* Properties of conflict detection.                                       *)
(***************************************************************************)
\* The tracks, as the specification classifies a type string.
MedicalTrack(t) == toLowerCase(t) \in {"consulta", "retorno"}

NursingTrack(t) ==
    toLowerCase(t) \in {"aplicacao", "tirzepatida", "aplicação", "aplicação tirzepatida"}

SameTrack(t1, t2) ==
    \/ MedicalTrack(t1) /\ MedicalTrack(t2)
    \/ NursingTrack(t1) /\ NursingTrack(t2)

\* [start, start + duration) of a type booked at a time overlaps that of a
\* stored row.
Overlapping(type, time, a) ==
    /\ parseTime(time) < parseTime(a.time) + getTypeDuration(a.type)
    /\ parseTime(a.time) < parseTime(time) + getTypeDuration(type)

\* The stored rows that occupy an overlapping interval of the same track on
\* that date.
Blockers(type, date, time) ==
    LET start == parseTime(time)
        end == start + getTypeDuration(type)
    IN  {i \in DOMAIN appointments :
            /\ appointments[i].date = date
            /\ appointments[i].status # "cancelled"
            /\ SameTrack(type, appointments[i].type)
            /\ start < parseTime(appointments[i].time) + getTypeDuration(appointments[i].type)
            /\ parseTime(appointments[i].time) < end}

\* Start times a proposal is checked at.
ProbeTimes == {<<9, 45>>, <<10, 0>>, <<10, 15>>}

PostProbes ==
    [patientId : {"ph1"}, professional : {DoctorName}, type : AllTypes,
     date : Dates, time : ProbeTimes, status : {"scheduled"}]

CriarProbes == [telefone : {"ph1"}, tipo : AllTypes, data : Dates, hora : ProbeTimes]

\* C1: for each track and each date no two non-cancelled appointments of
\* that track have overlapping [start, start+duration) intervals.
NoTrackOverlap ==
    \A i, j \in DOMAIN appointments :
        (/\ i < j
         /\ appointments[i].status # "cancelled"
         /\ appointments[j].status # "cancelled"
         /\ appointments[i].date = appointments[j].date
         /\ SameTrack(appointments[i].type, appointments[j].type))
        => ~Overlapping(appointments[j].type, appointments[j].time, appointments[i])

\* C2: a booking request that overlaps a non-cancelled appointment of the
\* same track on the same date never creates an appointment, and it is
\* answered with the 409 Conflict whenever it passes the checks that the
\* handler runs before the conflict check; on POST /api/appointments and on
\* POST /api/agenda/criar-agendamento, for every spelling of the type.
ConflictingBookingRejected ==
    /\ \A req \in PostProbes :
          Blockers(req.type, req.date, req.time) # {}
          => /\ PostAppointmentsResponse(req).code # 201
             /\ PostValidationError(req) = "" => PostAppointmentsResponse(req).code = 409
    /\ \A req \in CriarProbes :
          Blockers(dbTypeName(req.tipo), req.data, req.hora) # {}
          => /\ CriarAgendamentoResponse(req).code # 201
             /\ (PatientRuleError(req) = "" /\ CriarScheduleError(req) = "")
                => CriarAgendamentoResponse(req).code = 409

\* A booking was just answered with Conflict while a non-cancelled
\* appointment of the same track holds an overlapping interval that starts
\* at another time.
ConflictingBookingRejectedWitness ==
    /\ response.code = 409
    /\ \E i \in DOMAIN appointments :
          /\ appointments[i].status # "cancelled"
          /\ appointments[i].time # response.from
          /\ MedicalTrack(appointments[i].type)
          /\ parseTime(appointments[i].time) < parseTime(response.to)
          /\ parseTime(response.from) < parseTime(appointments[i].time) + getTypeDuration(appointments[i].type)

\* The non-cancelled rows of a date all belong to the nursing track, or all
\* to the medical track.
OnlyNursingOn(date) ==
    \A i \in DOMAIN appointments :
        (appointments[i].date = date /\ appointments[i].status # "cancelled")
        => NursingTrack(appointments[i].type)

OnlyMedicalOn(date) ==
    \A i \in DOMAIN appointments :
        (appointments[i].date = date /\ appointments[i].status # "cancelled")
        => MedicalTrack(appointments[i].type)

\* C3: a stored appointment of the nursing track never makes the conflict
\* callback true for a medical proposal of the same date and time, and a
\* stored medical one never for a nursing proposal, whatever the spellings;
\* whatever the intervals, a medical
\* request for a date that holds only nursing appointments, or a nursing
\* request for a date that holds only medical ones, is never answered with
\* Conflict.
TrackIndependence ==
    /\ \A i \in DOMAIN appointments :
          \A t1 \in {t \in AllTypes : MedicalTrack(t)}, t2 \in {t \in AllTypes : NursingTrack(t)} :
             /\ ~conflictsWith([appointments[i] EXCEPT !.type = t2], t1, appointments[i].time)
             /\ ~conflictsWith([appointments[i] EXCEPT !.type = t1], t2, appointments[i].time)
    /\ \A req \in PostProbes :
          (\/ MedicalTrack(req.type) /\ OnlyNursingOn(req.date)
           \/ NursingTrack(req.type) /\ OnlyMedicalOn(req.date))
          => PostAppointmentsResponse(req).code # 409
    /\ \A req \in CriarProbes :
          (\/ MedicalTrack(dbTypeName(req.tipo)) /\ OnlyNursingOn(req.data)
           \/ NursingTrack(dbTypeName(req.tipo)) /\ OnlyMedicalOn(req.data))
          => CriarAgendamentoResponse(req).code # 409

\* A medical and a nursing appointment of the same date and time are both
\* scheduled, the second one just accepted by the webhook route.
TrackIndependenceWitness ==
    /\ response = Reply(201, "Agendamento criado com sucesso")
    /\ \E i, j \in DOMAIN appointments :
          /\ i < j /\ j = Len(appointments)
          /\ appointments[i].status = "scheduled" /\ appointments[j].status = "scheduled"
          /\ appointments[i].date = appointments[j].date
          /\ appointments[i].time = appointments[j].time
          /\ \/ MedicalTrack(appointments[i].type) /\ NursingTrack(appointments[j].type)
             \/ NursingTrack(appointments[i].type) /\ MedicalTrack(appointments[j].type)

\* C4: cancelled appointments occupy nothing: a request of a classified
\* type whose overlapping same-track appointments of that date are all
\* cancelled is not answered with Conflict, on both validated routes.
CancelledNeverBlocks ==
    /\ \A req \in PostProbes :
          Blockers(req.type, req.date, req.time) = {} => PostAppointmentsResponse(req).code # 409
    /\ \A req \in CriarProbes :
          Blockers(dbTypeName(req.tipo), req.data, req.hora) = {}
          => CriarAgendamentoResponse(req).code # 409

\* The webhook route just accepted a booking whose interval overlaps that
\* of a cancelled appointment of the same track and date.
CancelledNeverBlocksWitness ==
    /\ response = Reply(201, "Agendamento criado com sucesso")
    /\ \E i \in DOMAIN appointments :
          LET new == appointments[Len(appointments)]
          IN  /\ i < Len(appointments)
              /\ appointments[i].status = "cancelled"
              /\ appointments[i].date = new.date
              /\ SameTrack(new.type, appointments[i].type)
              /\ Overlapping(new.type, new.time, appointments[i])

\* C5: once the status of an appointment is cancelled or attended, no step
\* changes it to a different value.
TerminalStatusesStay ==
    [][\A i \in DOMAIN appointments :
          appointments[i].status \in {"cancelled", "attended"}
          => appointments'[i].status = appointments[i].status]_vars

(***************************************************************************)
(* Properties of the lifecycle advancer.                                   *)
(***************************************************************************)
Terminal == {"cancelled", "attended"}

\* The row is scheduled and its start, on the clock's date, has come.
Due(a, clock) ==
    /\ a.status = "scheduled"
    /\ a.date = clock.day
    /\ parseTime(a.time) <= clock.min

AdvancerRan == response = Reply(0, "updateAppointmentStatuses")

\* C6: at every value of the clock the advancer leaves every appointment
\* whose status is cancelled or attended unchanged.
TerminalUntouchedByAdvancer ==
    \A c \in ClockPoints : \A i \in DOMAIN appointments :
        appointments[i].status \in Terminal
        => advanced(appointments, c)[i] = appointments[i]

\* The advancer just ran over a cancelled appointment of today whose start
\* time has passed.
TerminalUntouchedByAdvancerWitness ==
    /\ AdvancerRan
    /\ \E i \in DOMAIN appointments :
          /\ appointments[i].status = "cancelled"
          /\ appointments[i].date = now.day
          /\ parseTime(appointments[i].time) <= now.min

\* C7: running the advancer twice at the same clock value gives the same
\* appointments as running it once.
IdempotentLifecycle ==
    \A c \in ClockPoints :
        advanced(advanced(appointments, c), c) = advanced(appointments, c)

\* The advancer just ran and left an appointment of today in_progress, its
\* end not reached yet.
IdempotentLifecycleWitness ==
    /\ AdvancerRan
    /\ \E i \in DOMAIN appointments :
          /\ appointments[i].status = "in_progress"
          /\ appointments[i].date = now.day
          /\ parseTime(appointments[i].time) <= now.min
          /\ now.min < parseTime(appointments[i].time) + typeMapDuration(appointments[i].type)

StepTwoUsesOwnStart ==
    \A c \in ClockPoints : \A i \in DOMAIN appointments :
        appointments[i].status = "in_progress"
        => (advanced(appointments, c)[i].status = "attended"
            <=> c.day * 1440 + c.min >=
                  appointments[i].date * 1440 + parseTime(appointments[i].time)
                  + getTypeDuration(appointments[i].type))

(***************************************************************************)
(* Properties of the availability calculator.                              *)
(***************************************************************************)
\* The slots an answer lists for a date.
SlotsOf(result, date) ==
    UNION {{result[k].horariosDisponiveis[n] : n \in DOMAIN result[k].horariosDisponiveis} :
              k \in {k \in DOMAIN result : result[k].data = date}}

\* C10: at every value of the clock no slot returned for the date of today
\* starts at or before the current minute, and the slots returned for any
\* other date do not depend on the clock.
PastExclusion ==
    \A q \in Queries : \A c \in AvailClock :
        LET result == getAvailableSlots(q.dataInicio, q.dataFim, q.tipo, c)
        IN  /\ \A slot \in SlotsOf(result, c.day) : timeToMinutes(slot) > c.min
            /\ \A k \in DOMAIN result :
                  (result[k].data # c.day /\ result[k].data # now.day)
                  => result[k] = getAvailableSlots(q.dataInicio, q.dataFim, q.tipo, now)[k]

\* A query for today was just answered at 10:00 sharp: the answer lists
\* 10:30 and neither 10:00 nor an earlier slot.
PastExclusionWitness ==
    /\ response.code = 200 /\ response.msg = "slots"
    /\ now.min = 600
    /\ \E k \in DOMAIN response.body :
          /\ response.body[k].data = now.day
          /\ \E n \in DOMAIN response.body[k].horariosDisponiveis :
                response.body[k].horariosDisponiveis[n] = <<10, 30>>
          /\ \A n \in DOMAIN response.body[k].horariosDisponiveis :
                timeToMinutes(response.body[k].horariosDisponiveis[n]) > 600

\* The close time of a date, in minutes: 13:00 on Friday, 18:00 otherwise.
CloseMinutes(date) == IF date % 7 = 5 THEN 13 * 60 ELSE 18 * 60

\* 09:00, 09:30, ..., 12:30.
FridayGrid == [n \in 1 .. 8 |-> <<9 + (n - 1) \div 2, 30 * ((n - 1) % 2)>>]

\* C11: every slot returned by getAvailableSlots starts at 09:00 + 30*k
\* minutes, k >= 0, strictly before the close time of its weekday (13:00 on
\* Friday, 18:00 Monday to Thursday); a Friday that is not today and holds
\* no appointment yields exactly 09:00, 09:30, ..., 12:30.
SlotGranularity ==
    \A q \in GridQueries :
        LET result == getAvailableSlots(q.dataInicio, q.dataFim, q.tipo, now)
        IN  \A k \in DOMAIN result :
               /\ \A n \in DOMAIN result[k].horariosDisponiveis :
                     LET slot == result[k].horariosDisponiveis[n]
                         start == slot[1] * 60 + slot[2]
                     IN  /\ slot[2] \in 0 .. 59
                         /\ start >= 9 * 60
                         /\ (start - 9 * 60) % 30 = 0
                         /\ start < CloseMinutes(result[k].data)
               /\ (/\ result[k].data % 7 = 5
                   /\ result[k].data # now.day
                   /\ \A i \in DOMAIN appointments : appointments[i].date # result[k].data)
                  => result[k].horariosDisponiveis = FridayGrid

\* On Monday a query was just answered with the entry of a Friday that
\* holds no appointment: eight slots, the last one 12:30.
SlotGranularityWitness ==
    /\ response.code = 200 /\ response.msg = "slots"
    /\ now.day = 1
    /\ \A i \in DOMAIN appointments : appointments[i].date # 5
    /\ \E k \in DOMAIN response.body :
          /\ response.body[k].data = 5
          /\ Len(response.body[k].horariosDisponiveis) = 8
          /\ response.body[k].horariosDisponiveis[8] = <<12, 30>>

\* The candidate grid of a date, as start minutes.
CandidateStarts(date) == {9 * 60 + 30 * k : k \in 0 .. ((CloseMinutes(date) - 9 * 60) \div 30 - 1)}

\* The status is in the blocking set, case-insensitively.
StatusBlocks(status) ==
    toLowerCase(status) \in {"scheduled", "confirmed", "completed", "pending",
                             "agendado", "confirmado", "concluido", "pendente"}

\* C12: for a weekday date a candidate slot s is returned if and only if
\* the today cutoff does not exclude it and [s, s + requestedDuration)
\* overlaps no [start, start + duration) of an appointment of that date
\* whose status is in the blocking set; rows of any other status and the
\* track of a row play no part.
FilteringIsExact ==
    \A q \in GridQueries :
        LET result == getAvailableSlots(q.dataInicio, q.dataFim, q.tipo, now)
        IN  \A k \in DOMAIN result : \A start \in CandidateStarts(result[k].data) :
               (<<start \div 60, start % 60>> \in SlotsOf(result, result[k].data))
               <=> /\ ~(result[k].data = now.day /\ start <= now.min)
                   /\ \A i \in DOMAIN appointments :
                         (appointments[i].date = result[k].data /\ StatusBlocks(appointments[i].status))
                         => ~(/\ start < parseTime(appointments[i].time) + occupiedDuration(appointments[i].type)
                              /\ parseTime(appointments[i].time) < start + requestedDuration(q.tipo))

\* A query for 15-minute applications on a Monday was just answered: a
\* "Confirmed" consultation at 10:15 removed 10:30 and left 10:00, and an
\* in_progress row removed nothing.
FilteringIsExactWitness ==
    /\ response.code = 200 /\ response.msg = "slots"
    /\ \E i \in DOMAIN appointments :
          /\ appointments[i] = [type |-> "Consulta", date |-> 1, time |-> <<10, 15>>, status |-> "Confirmed"]
          /\ \A j \in DOMAIN appointments : j # i => appointments[j].status = "in_progress"
    /\ \E k \in DOMAIN response.body :
          /\ response.body[k].data = 1
          /\ \E n \in DOMAIN response.body[k].horariosDisponiveis :
                response.body[k].horariosDisponiveis[n] = <<10, 0>>
          /\ \A n \in DOMAIN response.body[k].horariosDisponiveis :
                response.body[k].horariosDisponiveis[n] # <<10, 30>>
          /\ \E n \in DOMAIN response.body[k].horariosDisponiveis :
                response.body[k].horariosDisponiveis[n] = <<11, 0>>

\* The Monday-to-Friday dates of the inclusive range of a query.
WeekdaysOfRange(q) ==
    {d \in q.dataInicio .. (IF q.dataFim # 0 THEN q.dataFim ELSE q.dataInicio) : d % 7 \in 1 .. 5}

\* C13: getAvailableSlots returns exactly one entry for every
\* Monday-to-Friday date of [dataInicio, dataFim] (dataFim defaulting to
\* dataInicio) and none for a Saturday or a Sunday; the entries ascend by
\* date, and the slots of an entry ascend strictly by time.
EntriesPerWeekday ==
    \A q \in GridQueries :
        LET result == getAvailableSlots(q.dataInicio, q.dataFim, q.tipo, now)
        IN  /\ {result[k].data : k \in DOMAIN result} = WeekdaysOfRange(q)
            /\ Len(result) = Cardinality(WeekdaysOfRange(q))
            /\ \A k \in DOMAIN result : k > 1 => result[k - 1].data < result[k].data
            /\ \A k \in DOMAIN result : \A n \in DOMAIN result[k].horariosDisponiveis :
                  n > 1 => parseTime(result[k].horariosDisponiveis[n - 1])
                           < parseTime(result[k].horariosDisponiveis[n])

\* The range from Friday to the Monday after was just answered with two
\* entries, Friday then Monday, each listing several slots.
EntriesPerWeekdayWitness ==
    /\ response.code = 200 /\ response.msg = "slots"
    /\ Len(response.body) = 2
    /\ response.body[1].data = 5 /\ response.body[2].data = 8
    /\ Len(response.body[1].horariosDisponiveis) > 1
    /\ Len(response.body[2].horariosDisponiveis) > 1

(***************************************************************************)
(* Properties of the weekly schedule check.                                *)
(***************************************************************************)
\* The outcome the schedule rules give to a professional, a date and a
\* start time: no row for the weekday, rows but none active, active rows
\* but none that contains the time, or a row that contains it.
ScheduleCase(profId, date, time) ==
    LET rows == {s \in serviceSchedules : s.professionalId = profId /\ s.weekday = date % 7}
    IN  IF rows = {} THEN "missing"
        ELSE IF \A s \in rows : ~s.isActive THEN "inactive"
        ELSE IF \A s \in rows :
                   s.isActive => ~(parseTime(s.startTime) <= parseTime(time)
                                   /\ parseTime(time) < parseTime(s.endTime))
        THEN "outside"
        ELSE "ok"

\* Requests of the registered patient for a consultation with the doctor,
\* on Monday, Wednesday or Friday at 08:00 or 10:00.
SchedulePostProbes ==
    [patientId : {"ph1"}, professional : {DoctorName}, type : {"consulta"},
     date : {1, 3, 5}, time : {<<8, 0>>, <<10, 0>>}, status : {"scheduled"}]

ScheduleCriarProbes ==
    [telefone : {"ph1"}, tipo : {"CONSULTA"}, data : {1, 3, 5}, hora : {<<8, 0>>, <<10, 0>>}]

\* C14: the schedule check reports three different messages for a weekday
\* without rows, a weekday whose rows are all inactive and a time outside
\* the active rows, on POST /api/appointments and on
\* POST /api/agenda/criar-agendamento: two requests of a route that fall
\* into different cases never get the same answer from the check.
ThreeScheduleMessages ==
    /\ \A r1, r2 \in SchedulePostProbes :
          ScheduleCase("doc", r1.date, r1.time) # ScheduleCase("doc", r2.date, r2.time)
          => PostValidationError(r1) # PostValidationError(r2)
    /\ \A r1, r2 \in ScheduleCriarProbes :
          ScheduleCase("doc", r1.data, r1.hora) # ScheduleCase("doc", r2.data, r2.hora)
          => CriarScheduleError(r1) # CriarScheduleError(r2)

\* Start times a booking is checked at against a window that closes at
\* 13:00.
WindowProbeTimes == {<<10, 0>>, <<12, 45>>, <<13, 0>>}

\* Some active row of the professional for the weekday holds the whole
\* interval [start, start + duration).
WholeBookingInWindow(profId, date, time, duration) ==
    \E s \in serviceSchedules :
        /\ s.professionalId = profId /\ s.weekday = date % 7 /\ s.isActive
        /\ parseTime(time) >= parseTime(s.startTime)
        /\ parseTime(time) + duration <= parseTime(s.endTime)

\* C15: a booking passes the weekly schedule check if and only if some
\* active row of the professional for that weekday satisfies
\* proposedStart >= window.start and proposedEnd <= window.end, with
\* proposedEnd = proposedStart + resolved duration, on both validated
\* routes.
BookingEndsInsideWindow ==
    /\ \A req \in SchedulePostProbes : \A t \in WindowProbeTimes :
          (PostValidationError([req EXCEPT !.time = t]) = "")
          <=> WholeBookingInWindow("doc", req.date, t, getTypeDuration(req.type))
    /\ \A req \in ScheduleCriarProbes : \A t \in WindowProbeTimes :
          (CriarScheduleError([req EXCEPT !.hora = t]) = "")
          <=> WholeBookingInWindow("doc", req.data, t, getTypeDuration(dbTypeName(req.tipo)))

\* Requests for a Saturday or a Sunday of two weeks, of any professional
\* and type.
WeekendPostProbes ==
    [patientId : {"ph1"}, professional : ProfNames, type : {"consulta", "Aplicação"},
     date : {6, 7, 13, 14}, time : {<<10, 0>>}, status : {"scheduled"}]

\* C16: while the schedules are written only by POST /api/schedules and
\* PATCH /api/schedules/:id, a request to POST /api/appointments for a
\* Saturday or a Sunday creates no appointment, and it is answered with
\* "the professional does not attend on this weekday" once its patient
\* and its professional are found.
WeekendBookingRejected ==
    /\ \A s \in serviceSchedules : s.weekday \notin {0, 6}
    /\ \A i \in DOMAIN appointments : appointments[i].date % 7 \notin {0, 6}
    /\ \A req \in WeekendPostProbes :
          PostAppointmentsResponse(req) = Reply(400, "O profissional nao atende neste dia da semana")
    /\ \A req \in WeekendPostProbes : \A key \in Phones, name \in ProfNames \cup {"Dr. Ninguem"} :
          PostAppointmentsResponse([req EXCEPT !.patientId = key, !.professional = name]).code = 400

\* The doctor has an active schedule row, and a request for a Saturday or
\* a Sunday was just refused because the professional does not attend that
\* weekday.
WeekendBookingRejectedWitness ==
    /\ response = Reply(400, "O profissional nao atende neste dia da semana")
    /\ \E s \in serviceSchedules : s.professionalId = "doc" /\ s.isActive
    /\ \A s \in serviceSchedules : s.weekday \in 1 .. 5

\* A schedule row respects the business rules: Monday to Friday, a
\* non-empty window inside 09:00-13:00 on Friday and 09:00-18:00 on the
\* other days.
WellFormedSchedule(weekday, startTime, endTime) ==
    /\ weekday \in 1 .. 5
    /\ parseTime(startTime) < parseTime(endTime)
    /\ parseTime(startTime) >= 9 * 60
    /\ parseTime(endTime) <= (IF weekday = 5 THEN 13 * 60 ELSE 18 * 60)

\* C17: after any sequence of POST /api/schedules and
\* PATCH /api/schedules/:id every stored schedule row is Monday to Friday
\* with startTime < endTime inside the business envelope: no request
\* stores another kind of row.
StoredSchedulesWellFormed ==
    \A s \in serviceSchedules : WellFormedSchedule(s.weekday, s.startTime, s.endTime)

(***************************************************************************)
(* Properties of the configured durations.                                 *)
(***************************************************************************)
\* C19: after any sequence of POST /api/appointment-types and
\* PATCH /api/appointment-types/:id every stored type has a durationMinutes
\* of at least 5.
StoredDurationsAtLeastFive ==
    \A i \in DOMAIN appointmentTypes : appointmentTypes[i].durationMinutes >= 5

\* No configured type has the identifier as its slug or its name, case
\* set aside.
MatchesNoType(t) ==
    \A i \in DOMAIN appointmentTypes :
        /\ toLowerCase(appointmentTypes[i].slug) # toLowerCase(t)
        /\ toLowerCase(appointmentTypes[i].name) # toLowerCase(t)

\* C18: the duration resolvers (booking routes, availability calculator,
\* lifecycle advancer) return 30 for an identifier that matches no
\* configured type, and a strictly positive number of minutes for every
\* identifier and every stored set of types.
ResolvedDurationPositive ==
    \A t \in AllTypes \cup {"Exame", "exame"} :
        /\ getTypeDuration(t) > 0
        /\ occupiedDuration(t) > 0
        /\ typeMapDuration(t) > 0
        /\ MatchesNoType(t)
           => getTypeDuration(t) = 30 /\ occupiedDuration(t) = 30 /\ typeMapDuration(t) = 30

(***************************************************************************)
(* Properties of the edit routes.                                          *)
(***************************************************************************)
\* The bodies that repeat the date, the time or the type of a row.
UnchangedBodies(a) == {[date |-> a.date], [time |-> a.time], [type |-> a.type]}

hasConflictSeen(seen, type, date, time) ==
    \E i \in DOMAIN seen :
        /\ seen[i].date = date /\ seen[i].status # "cancelled"
        /\ conflictsWith(seen[i], type, time)

\* Two clients booking on Monday, and a patient that does not exist.
RaceRequests ==
    [patientId : {"ph1", "ph2"}, professional : {DoctorName},
     type : ReqTypes, date : {1}, time : Times, status : {"scheduled"}]

\* The handler up to the end of await storage.getAllAppointments(): the
\* checks on the patient, the professional and the schedule, then the read.
PostRead(w, req) ==
    /\ inflight[w] = Idle
    /\ IF PostValidationError(req) # ""
       THEN /\ response' = Reply(400, PostValidationError(req))
            /\ UNCHANGED inflight
       ELSE /\ inflight' = [inflight EXCEPT ![w] = [pc |-> "read", req |-> req, seen |-> appointments]]
            /\ UNCHANGED response
    /\ UNCHANGED <<appointments, appointmentTypes, serviceSchedules, patients, now>>

\* Variant of PostInsertResponse that runs the conflict check on the table
\* as it is when the insert is made.
PostInsertResponse_recheck(w) ==
    LET req == inflight[w].req
    IN  IF hasConflict(req.type, req.date, req.time)
        THEN ConflictResponse(req.type, req.time)
        ELSE Reply(201, "created")

\* The rest of the handler: the conflict check on the rows that were read,
\* and the response.
PostInsertResponse(w) ==
    LET req == inflight[w].req
    IN  IF hasConflictSeen(inflight[w].seen, req.type, req.date, req.time)
        THEN ConflictResponse(req.type, req.time)
        ELSE Reply(201, "created")

\* The rest of the handler, with await storage.createAppointment(...).
PostInsert(w) ==
    /\ inflight[w].pc = "read"
    /\ response' = PostInsertResponse(w)
    /\ appointments' =
          IF response'.code = 201
          THEN createAppointment(NewAppointment(inflight[w].req.type, inflight[w].req.date,
                                                inflight[w].req.time, inflight[w].req.status))
          ELSE appointments
    /\ inflight' = [inflight EXCEPT ![w] = Idle]
    /\ UNCHANGED <<appointmentTypes, serviceSchedules, patients, now>>

\* Handlers that are between their read and their insert.
Running == {w \in Workers : inflight[w].pc # "idle"}

NextRace ==
    \/ \E w \in Workers : \E req \in RaceRequests :
          Len(appointments) + Cardinality(Running) < MaxAppts /\ PostRead(w, req)
    \/ \E w \in Workers : PostInsert(w)

SpecRace == Init /\ [][NextRace]_vars

(***************************************************************************)
(* updateAppointmentStatuses, one await at a time.                         *)
(***************************************************************************)
\* The ids in increasing order.
RECURSIVE idsInOrder(_)
idsInOrder(ids) ==
    IF ids = {} THEN << >>
    ELSE LET least == CHOOSE i \in ids : \A j \in ids : i <= j
         IN  <<least>> \o idsInOrder(ids \ {least})

\* Of the rows selected with status in_progress, those the loop updates:
\* now >= endTime, with now taken when the run began.
dueForAttended(appts, clock) ==
    {i \in DOMAIN appts :
        /\ appts[i].status = "in_progress"
        /\ clock.min >= parseTime(appts[i].time) + typeMapDuration(appts[i].type)}

\* const now = new Date() and step 1, the UPDATE to in_progress.
AdvancerPromote(w) ==
    /\ inflight[w] = Idle
    /\ appointments' = startDue(appointments, now)
    /\ inflight' = [inflight EXCEPT ![w] = [pc |-> "promoted", clock |-> now]]
    /\ UNCHANGED <<appointmentTypes, serviceSchedules, patients, now, response>>

\* The SELECT of the in_progress rows and of the types.
AdvancerRead(w) ==
    /\ inflight[w].pc = "promoted"
    /\ LET todo == idsInOrder(dueForAttended(appointments, inflight[w].clock))
       IN  IF todo = << >>
           THEN /\ inflight' = [inflight EXCEPT ![w] = Idle]
                /\ response' = Reply(0, "updateAppointmentStatuses")
           ELSE /\ inflight' = [inflight EXCEPT ![w] =
                                   [pc |-> "writing", clock |-> inflight[w].clock, todo |-> todo]]
                /\ UNCHANGED response
    /\ UNCHANGED <<appointments, appointmentTypes, serviceSchedules, patients, now>>

\* One turn of the loop: await this.updateAppointment(apt.id, {status: "attended"}).
AdvancerWrite(w) ==
    /\ inflight[w].pc = "writing"
    /\ appointments' = updateAppointment(Head(inflight[w].todo), [status |-> "attended"])
    /\ IF Tail(inflight[w].todo) = << >>
       THEN /\ inflight' = [inflight EXCEPT ![w] = Idle]
            /\ response' = Reply(0, "updateAppointmentStatuses")
       ELSE /\ inflight' = [inflight EXCEPT ![w] =
                               [pc |-> "writing", clock |-> inflight[w].clock,
                                todo |-> Tail(inflight[w].todo)]]
            /\ UNCHANGED response
    /\ UNCHANGED <<appointmentTypes, serviceSchedules, patients, now>>

\* Stored rows of Monday the advancer and the cancel route meet on.
AdvancerRows ==
    [type : {"Consulta"}, date : {1}, time : Times, status : {"scheduled", "in_progress"}]

AdvancerClock == [day : {1}, min : {600, 630, 645}]

InitAdvancerRace ==
    /\ appointments \in StoredTables(AdvancerRows)
    /\ appointmentTypes = DefaultTypes
    /\ serviceSchedules = DefaultSchedules
    /\ patients = InitialPatients
    /\ now \in AdvancerClock
    /\ response = Reply(0, "none")
    /\ inflight = NoneInFlight

NextAdvancerRace ==
    \/ \E w \in Workers : AdvancerPromote(w)
    \/ \E w \in Workers : AdvancerRead(w)
    \/ \E w \in Workers : AdvancerWrite(w)
    \/ \E id \in RequestIds : CancelAppointment(id)

SpecAdvancerRace == InitAdvancerRace /\ [][NextAdvancerRace]_vars

(***************************************************************************)
(* Properties of the Conflict response.                                    *)
(***************************************************************************)
\* C21: the payload of a Conflict carries the start-end range of the
\* stored appointment the request conflicts with: the reported window is
\* [start, start + duration) of a stored appointment that is not
\* cancelled.
ConflictReportsExistingWindow ==
    response.code = 409
    => \E i \in DOMAIN appointments :
          /\ appointments[i].status # "cancelled"
          /\ response.from = appointments[i].time
          /\ response.to = formatMinutes(parseTime(appointments[i].time)
                                         + getTypeDuration(appointments[i].type))

(***************************************************************************)
(* Properties of the order of the checks and of what a request leaves      *)
(* behind.                                                                 *)
(***************************************************************************)
\* Some active schedule row of the weekday of the date contains the time.
SomeScheduleAllows(date, time) ==
    \E s \in serviceSchedules :
        /\ s.isActive /\ s.weekday = date % 7
        /\ parseTime(s.startTime) <= parseTime(time)
        /\ parseTime(time) < parseTime(s.endTime)

\* C23: on every path an appointment is persisted only by a request that
\* passed the weekly schedule check and the conflict check: the row a step
\* appends lies in an active schedule window and conflicts with nothing
\* that was stored before the step.
PersistOnlyAfterChecks ==
    [][Len(appointments') > Len(appointments)
       => /\ SomeScheduleAllows(appointments'[Len(appointments')].date,
                                appointments'[Len(appointments')].time)
          /\ ~hasConflict(appointments'[Len(appointments')].type,
                          appointments'[Len(appointments')].date,
                          appointments'[Len(appointments')].time)]_vars

(***************************************************************************)
(* The availability calculator against the booking-time checks.            *)
(***************************************************************************)
\* C24: every slot that getAvailableSlots returns for a type passes the
\* conflict check of POST /api/appointments when it is booked at that
\* instant for that date, time and type.
AvailabilityConservative ==
    \A q \in {g \in GridQueries : g.tipo # ""} :
        LET result == getAvailableSlots(q.dataInicio, q.dataFim, q.tipo, now)
        IN  \A k \in DOMAIN result : \A n \in DOMAIN result[k].horariosDisponiveis :
               ~hasConflict(q.tipo, result[k].data, result[k].horariosDisponiveis[n])

(***************************************************************************)
(* Properties of unclassified types.                                       *)
(***************************************************************************)
\* The type belongs to neither track.
Unclassified(t) == ~MedicalTrack(t) /\ ~NursingTrack(t)

\* Requests of every spelling on the date of the stored rows.
TrackProbes ==
    [patientId : {"ph1"}, professional : {DoctorName}, type : AllTypes,
     date : {1}, time : ProbeTimes, status : {"scheduled"}]

\* C25: a proposed type that is neither medical nor nursing is never
\* rejected by the conflict check, whatever is stored, on both validated
\* routes; and a stored appointment of an unclassified type never makes the
\* check reject any proposal.
UnclassifiedNeverConflicts ==
    /\ \A req \in TrackProbes :
          Unclassified(req.type)
          => /\ ~hasConflict(req.type, req.date, req.time)
             /\ PostAppointmentsResponse(req).code # 409
    /\ \A tipo \in AllTypes : \A t \in ProbeTimes :
          Unclassified(dbTypeName(tipo)) => ~hasConflictPublic(tipo, 1, t)
    /\ \A req \in TrackProbes : \A i \in DOMAIN appointments :
          Unclassified(appointments[i].type)
          => ~conflictsWith(appointments[i], req.type, req.time)
    /\ \A req \in TrackProbes :
          (\A i \in DOMAIN appointments :
              appointments[i].status # "cancelled" => Unclassified(appointments[i].type))
          => PostAppointmentsResponse(req).code # 409

\* A consultation was just accepted at the date and time of a stored
\* appointment of an unclassified type, or an unclassified request at the
\* date and time of a stored consultation.
UnclassifiedNeverConflictsWitness ==
    /\ response = Reply(201, "created")
    /\ \E i, j \in DOMAIN appointments :
          /\ i < j /\ j = Len(appointments)
          /\ appointments[i].status # "cancelled"
          /\ appointments[i].date = appointments[j].date
          /\ appointments[i].time = appointments[j].time
          /\ \/ Unclassified(appointments[i].type) /\ MedicalTrack(appointments[j].type)
             \/ MedicalTrack(appointments[i].type) /\ Unclassified(appointments[j].type)

\* C28: a request that is answered with a rejection (400, 403, 404 or 409)
\* leaves the stored patients and appointments as they were; in particular
\* POST /api/agenda/criar-agendamento creates no patient when it ends in a
\* schedule or conflict error.
RejectionLeavesStateUnchanged ==
    [][response'.code \in {400, 403, 404, 409}
       => patients' = patients /\ appointments' = appointments]_vars

(***************************************************************************)
(* Properties of the durations the three components resolve.               *)
(***************************************************************************)
\* C29: for every type string stored on an appointment and every set of
\* configured types the conflict detector (getTypeDuration), the
\* availability calculator (the occupied interval and the requested
\* duration) and the lifecycle advancer (typeMap) compute the same number
\* of minutes.
ResolversAgree ==
    \A t \in AllTypes \cup {"Exame", "exame"} :
        /\ getTypeDuration(t) = occupiedDuration(t)
        /\ getTypeDuration(t) = requestedDuration(t)
        /\ getTypeDuration(t) = typeMapDuration(t)

\* C30: every slot getAvailableSlots offers for a type ends, with the
\* duration of that type, at or before the close time of its day, for
\* every configured duration.
SlotFitsBusinessWindow ==
    \A tipo \in {"", "consulta", "Aplicação"} : \A date \in {1, 5} :
        LET result == getAvailableSlots(date, 0, tipo, now)
        IN  \A k \in DOMAIN result : \A n \in DOMAIN result[k].horariosDisponiveis :
               timeToMinutes(result[k].horariosDisponiveis[n]) + requestedDuration(tipo)
               <= CloseMinutes(result[k].data)

(***************************************************************************)
(* Liveness of the lifecycle.                                              *)
(***************************************************************************)
\* The start of the appointment (its date at its time) is not after the
\* clock.
StartPassed(a, clock) == a.date * 1440 + parseTime(a.time) <= clock.day * 1440 + clock.min

\* C26: while the advancer keeps being run and nothing cancels, every
\* scheduled appointment whose start has passed eventually leaves
\* scheduled and ends attended, also when its date is already earlier than
\* the day of the next run.
ScheduledEventuallyAttended ==
    \A i \in 1 .. (MaxStored + 1) :
        (/\ i \in DOMAIN appointments
         /\ appointments[i].status = "scheduled"
         /\ StartPassed(appointments[i], now))
        ~> (i \in DOMAIN appointments /\ appointments[i].status = "attended")

(***************************************************************************)
(* Concurrent booking requests.                                            *)
(***************************************************************************)
\* C22: a booking request that read the appointments before a conflicting
\* row was written passes the conflict check and is persisted whatever the
\* table holds when its insert is made, so two concurrent requests for the
\* same track, date and overlapping interval can both be persisted.
StaleCheckStillPersists ==
    [][\A w \in Workers :
          (/\ inflight[w].pc = "read"
           /\ inflight'[w].pc = "idle"
           /\ ~hasConflictSeen(inflight[w].seen, inflight[w].req.type,
                               inflight[w].req.date, inflight[w].req.time))
          => /\ response'.code = 201
             /\ appointments' = Append(appointments,
                    NewAppointment(inflight[w].req.type, inflight[w].req.date,
                                   inflight[w].req.time, inflight[w].req.status))]_vars

\* Both handlers have answered and two rows of the same track and date
\* with overlapping intervals, none of them cancelled, are stored.
BothPersisted ==
    /\ inflight = NoneInFlight
    /\ response.code = 201
    /\ \E i, j \in DOMAIN appointments :
          /\ i < j
          /\ appointments[i].date = appointments[j].date
          /\ appointments[i].status = "scheduled" /\ appointments[j].status = "scheduled"
          /\ conflictsWith(appointments[i], appointments[j].type, appointments[j].time)

====
